---- MODULE Spec2Model ----
(***************************************************************************)
(* Crossword constraint-satisfaction solver of                             *)
(* src/pset3-optimization/crossword/generate.py (class CrosswordCreator):  *)
(* node consistency, AC-3 and heuristic backtracking search.               *)
(*                                                                         *)
(* Python sets and dicts are iterated in an order the program does not     *)
(* control (Variable hashes a string, so the order changes from run to     *)
(* run).  Every iteration whose order can influence the outcome takes the  *)
(* order as an explicit argument, drawn from all permutations.             *)
(***************************************************************************)
EXTENDS Integers, Sequences, FiniteSets, TLC

VARIABLES
    crossword,   \* self.crossword: [variables, words], read-only input
    domains,     \* self.domains: variable -> set of words
    pc,          \* position of the running call
    queue,       \* ac3: the local worklist `queue`
    ac3ret,      \* ac3: the value returned by the last finished call
    assignment,  \* backtrack: the dict shared by all recursive calls
    stack,       \* backtrack: one frame per call that is inside its for loop
    entry,       \* backtrack: the assignment the outermost call was given
    result,      \* backtrack: the value returned by the last finished call
    probe,       \* a direct call of consistent or order_domain_values:
                 \* its arguments and the value it returned (SpecCalls)
    arcs,        \* ac3: the argument `arcs` of the running or last call
    ac3prev,     \* ac3: what the call before the running or last one was
                 \* given and what it left (SpecAc3)
    board,       \* tictactoe: the board of the game being played (SpecGame)
    move,        \* tictactoe: the value minimax(board) returned (SpecGame)
    field,       \* minesweeper: Minesweeper.mines, the cells that hold a mine
    ai,          \* minesweeper: the MinesweeperAI object (SpecSweeper)
    calls        \* minesweeper: the number of add_knowledge calls made

vars == <<crossword, domains, pc, queue, ac3ret, assignment, stack, entry,
          result, probe, arcs, ac3prev, board, move, field, ai, calls>>

-----------------------------------------------------------------------------
(* Bounds of the model *)

MaxVocab == 4                \* words in the vocabulary file
MaxCallVocab == 3            \* the same, where the helpers are called directly
MaxArcs == 2                 \* length of an explicit list given to ac3
MaxEmpty == 4                \* empty cells of a board minimax is called on
Height == 2                  \* minesweeper: rows of the board
Width == 3                   \* minesweeper: columns of the board
MaxMines == 3                \* minesweeper: mines on the board
MaxMoves == 3                \* minesweeper: calls of add_knowledge

Letters == {"a", "b"}
WordLengths == {2, 3}

AllWords == UNION {[1..n -> Letters] : n \in WordLengths}

Vocabularies == {W \in SUBSET AllWords : Cardinality(W) <= MaxVocab}

-----------------------------------------------------------------------------
(* The constraint graph (crossword.py: Variable, Crossword) *)

Variable(i, j, direction, length) ==
    [i |-> i, j |-> j, direction |-> direction, length |-> length]

\* a value that is no variable of any structure
NoVariable == Variable(0 - 1, 0 - 1, "none", 0)

\*  ##      one slot
Single == {Variable(0, 0, "across", 2)}

\*  .#      two slots crossing at the second letter of both
\*  ##
\*  .#
Cross == {Variable(1, 0, "across", 2), Variable(0, 1, "down", 3)}

\*  ..#     three slots: the across slot crosses both down slots
\*  ###
\*  #..
Zed == {Variable(1, 0, "down", 2), Variable(1, 0, "across", 3),
        Variable(0, 2, "down", 2)}

Structures == {Single, Cross, Zed}

AllVariables == UNION Structures

\* Variable.cells: the grid cells a slot occupies, in word order
cells(v) ==
    [k \in 1..v.length |->
        <<v.i + (IF v.direction = "down" THEN k - 1 ELSE 0),
          v.j + (IF v.direction = "across" THEN k - 1 ELSE 0)>>]

NoOverlap == <<>>

\* Crossword.overlaps[x, y]: the pair of 0-based indices of the shared cell,
\* or None (NoOverlap) when the two slots share no cell
overlaps ==
    [x \in AllVariables, y \in AllVariables |->
        LET common == {p \in (1..x.length) \X (1..y.length) :
                           cells(x)[p[1]] = cells(y)[p[2]]}
        IN  IF x = y \/ common = {}
            THEN NoOverlap
            ELSE LET p == CHOOSE q \in common : TRUE
                 IN  <<p[1] - 1, p[2] - 1>>]

\* Crossword.neighbors(var)
neighbors(var) ==
    {v \in crossword.variables : v # var /\ overlaps[v, var] # NoOverlap}

\* word[i] for a 0-based index i
Char(word, i) == word[i + 1]

-----------------------------------------------------------------------------
(* Iteration orders and sorting *)

\* the orders in which a set can be iterated
RECURSIVE Orderings(_)
Orderings(S) ==
    IF S = {} THEN {<<>>}
    ELSE UNION {{<<x>> \o rest : rest \in Orderings(S \ {x})} : x \in S}

VariablePerms ==
    [S \in UNION {SUBSET T : T \in Structures} |-> Orderings(S)]

WordPerms == [W \in Vocabularies |-> Orderings(W)]

\* the iteration orders of a set of variables, and of a set of words
VariableOrders(S) == VariablePerms[S]
WordOrders(W) == WordPerms[W]

NeighborOrderTable ==
    [S \in Structures |->
        LET nb(v) == {u \in S : u # v /\ overlaps[u, v] # NoOverlap}
        IN  {f \in [S -> UNION {Orderings(nb(v)) : v \in S}] :
                \A v \in S : f[v] \in Orderings(nb(v))}]

\* one iteration order of neighbors(v) for every variable v
NeighborOrders == NeighborOrderTable[crossword.variables]

RECURSIVE Flatten(_)
Flatten(ss) == IF ss = <<>> THEN <<>> ELSE Head(ss) \o Flatten(Tail(ss))

RECURSIVE SumOver(_, _)
SumOver(f, S) ==
    IF S = {} THEN 0
    ELSE LET x == CHOOSE y \in S : TRUE IN f[x] + SumOver(f, S \ {x})

\* Python's sorted(seq, key=...): ascending and stable.  keys[k] is the key
\* of seq[k].
sorted(seq, keys) ==
    LET n == Len(seq)
        rank(p) == 1 + Cardinality({q \in 1..n :
                        keys[q] < keys[p] \/ (keys[q] = keys[p] /\ q < p)})
    IN  [r \in 1..n |-> seq[CHOOSE p \in 1..n : rank(p) = r]]

\* Python's sorted(seq, key=..., reverse=True): descending, and still stable
sortedReverse(seq, keys) ==
    LET n == Len(seq)
        rank(p) == 1 + Cardinality({q \in 1..n :
                        keys[q] > keys[p] \/ (keys[q] = keys[p] /\ q < p)})
    IN  [r \in 1..n |-> seq[CHOOSE p \in 1..n : rank(p) = r]]

-----------------------------------------------------------------------------
(* Assignments *)

EmptyAssignment == [v \in {} |-> <<>>]

\* assignment[var] = value
Put(a, var, value) ==
    [v \in DOMAIN a \cup {var} |-> IF v = var THEN value ELSE a[v]]

\* assignment.pop(var) left out: the tentative pair stays
Pop_nothing(a, var) == a

\* assignment.pop(var)
Pop(a, var) == [v \in DOMAIN a \ {var} |-> a[v]]

\* every dict from some of the variables to words of the vocabulary
AnyAssignments ==
    UNION {[D -> crossword.words] : D \in SUBSET crossword.variables}

\* those that give every variable a word of its own length
FittingAssignments ==
    {a \in AnyAssignments : \A v \in DOMAIN a : Len(a[v]) = v.length}

\* the value None, and a returned assignment
None == [isNone |-> TRUE, value |-> EmptyAssignment]
Some(a) == [isNone |-> FALSE, value |-> a]

\* Python truthiness of a returned value: None and the empty dict are falsy
Truthy(r) == ~r.isNone /\ DOMAIN r.value # {}

-----------------------------------------------------------------------------
(* Node consistency and AC-3 *)

\* enforce_node_consistency that removes only the words that are too long
NodeConsistent_removesLonger(doms) ==
    [var \in DOMAIN doms |->
        LET inconsistent == {word \in doms[var] : Len(word) > var.length}
        IN  doms[var] \ inconsistent]

\* enforce_node_consistency: the domains it leaves
NodeConsistent(doms) ==
    [var \in DOMAIN doms |->
        LET inconsistent == {word \in doms[var] : Len(word) # var.length}
        IN  doms[var] \ inconsistent]

\* revise with all() where the code has any(): keeps w1 only if every word
\* of y agrees with it
revise_allForAny(doms, x, y) ==
    IF overlaps[x, y] # NoOverlap
    THEN LET i == overlaps[x, y][1]
             j == overlaps[x, y][2]
             inconsistent ==
                 {w1 \in doms[x] :
                     ~ \A w2 \in doms[y] : Char(w1, i) = Char(w2, j)}
         IN  [revised |-> inconsistent # {},
              domains |-> [doms EXCEPT ![x] = @ \ inconsistent]]
    ELSE [revised |-> FALSE, domains |-> doms]

\* revise that never sets `revised`: it removes the words and returns False
revise_neverReports(doms, x, y) ==
    IF overlaps[x, y] # NoOverlap
    THEN LET i == overlaps[x, y][1]
             j == overlaps[x, y][2]
             inconsistent ==
                 {w1 \in doms[x] :
                     ~ \E w2 \in doms[y] : Char(w1, i) = Char(w2, j)}
         IN  [revised |-> FALSE,
              domains |-> [doms EXCEPT ![x] = @ \ inconsistent]]
    ELSE [revised |-> FALSE, domains |-> doms]

\* revise that writes what is left of y's domain into x's
revise_assignsFromY(doms, x, y) ==
    IF overlaps[x, y] # NoOverlap
    THEN LET i == overlaps[x, y][1]
             j == overlaps[x, y][2]
             inconsistent ==
                 {w1 \in doms[x] :
                     ~ \E w2 \in doms[y] : Char(w1, i) = Char(w2, j)}
         IN  [revised |-> inconsistent # {},
              domains |-> [doms EXCEPT ![x] = doms[y] \ inconsistent]]
    ELSE [revised |-> FALSE, domains |-> doms]

\* revise(x, y): the value returned and the domains it leaves
revise(doms, x, y) ==
    IF overlaps[x, y] # NoOverlap
    THEN LET i == overlaps[x, y][1]
             j == overlaps[x, y][2]
             inconsistent ==
                 {w1 \in doms[x] :
                     ~ \E w2 \in doms[y] : Char(w1, i) = Char(w2, j)}
         IN  [revised |-> inconsistent # {},
              domains |-> [doms EXCEPT ![x] = @ \ inconsistent]]
    ELSE [revised |-> FALSE, domains |-> doms]

\* ac3, initial list of all arcs: for v1 in variables: for v2 in neighbors(v1)
AllArcs(vorder, norder) ==
    Flatten([k \in 1..Len(vorder) |->
                [m \in 1..Len(norder[vorder[k]]) |->
                    <<vorder[k], norder[vorder[k]][m]>>]])

InQueue(q, arc) == \E k \in 1..Len(q) : q[k] = arc

\* Enqueue with the arc reversed: appends (x, z) where the code appends (z, x)
RECURSIVE Enqueue_reversedArc(_, _, _, _)
Enqueue_reversedArc(q, zs, x, y) ==
    IF zs = <<>> THEN q
    ELSE LET z == Head(zs)
         IN  IF z # y /\ ~InQueue(q, <<x, z>>)
             THEN Enqueue_reversedArc(Append(q, <<x, z>>), Tail(zs), x, y)
             ELSE Enqueue_reversedArc(q, Tail(zs), x, y)

\* Enqueue without the test `(z, x) not in queue`
RECURSIVE Enqueue_ignoresQueue(_, _, _, _)
Enqueue_ignoresQueue(q, zs, x, y) ==
    IF zs = <<>> THEN q
    ELSE LET z == Head(zs)
         IN  IF z # y
             THEN Enqueue_ignoresQueue(Append(q, <<z, x>>), Tail(zs), x, y)
             ELSE Enqueue_ignoresQueue(q, Tail(zs), x, y)

\* Enqueue that appends nothing: a revised domain is never re-checked
Enqueue_nothing(q, zs, x, y) == q

\* ac3: for z in neighbors(x): if z != y and (z, x) not in queue: append
RECURSIVE Enqueue(_, _, _, _)
Enqueue(q, zs, x, y) ==
    IF zs = <<>> THEN q
    ELSE LET z == Head(zs)
         IN  IF z # y /\ ~InQueue(q, <<z, x>>)
             THEN Enqueue(Append(q, <<z, x>>), Tail(zs), x, y)
             ELSE Enqueue(q, Tail(zs), x, y)

\* the `arcs` argument of ac3: None, or a list
NoArcs == [given |-> FALSE, list |-> <<>>]

\* the arcs of the problem
Arcs ==
    {a \in crossword.variables \X crossword.variables :
        overlaps[a[1], a[2]] # NoOverlap}

\* the lists of arcs a caller can give, the empty list included
ArcLists == UNION {[1..n -> Arcs] : n \in 0..MaxArcs}

ArcsArguments ==
    {NoArcs} \cup {[given |-> TRUE, list |-> l] : l \in ArcLists}

\* ac3, `if arcs: queue = arcs / else: queue = [all arcs]`: the initial
\* worklists.  None is falsy, and so is the empty list.
InitialQueues(a) ==
    IF a.given /\ a.list # <<>>
    THEN {a.list}
    ELSE {AllArcs(vorder, norder) :
              vorder \in VariableOrders(crossword.variables),
              norder \in NeighborOrders}

\* ac3 as a function: the while loop run to its end from the domains doms and
\* the worklist q, visiting the neighbors of x in one fixed order; the value
\* returned and the domains left
RECURSIVE ac3(_, _)
ac3(doms, q) ==
    IF q = <<>> THEN [ret |-> TRUE, domains |-> doms]
    ELSE LET x == q[1][1]
             y == q[1][2]
             rest == Tail(q)
             r == revise(doms, x, y)
         IN  IF r.revised
             THEN IF r.domains[x] = {}
                  THEN [ret |-> FALSE, domains |-> r.domains]
                  ELSE ac3(r.domains,
                           Enqueue(rest,
                                   CHOOSE zorder \in
                                       VariableOrders(neighbors(x)) : TRUE,
                                   x, y))
             ELSE ac3(r.domains, rest)

\* no call of ac3 has returned yet
NoPrevious == [called |-> FALSE, arcs |-> NoArcs, ret |-> FALSE,
               domains |-> <<>>]

-----------------------------------------------------------------------------
(* Search helpers *)

\* assignment_complete with any() where the code has all()
assignment_complete_anyForAll(a) ==
    \E var \in crossword.variables : var \in DOMAIN a

\* assignment_complete
assignment_complete(a) == \A var \in crossword.variables : var \in DOMAIN a

\* consistent, inner loop: for neighbor in neighbors(var)
RECURSIVE consistentNeighbors(_, _, _)
consistentNeighbors(a, var, nbs) ==
    IF nbs = <<>> THEN "True"
    ELSE LET neighbor == Head(nbs)
         IN  IF neighbor \in DOMAIN a
             THEN LET i == overlaps[var, neighbor][1]
                      j == overlaps[var, neighbor][2]
                  IN  IF i >= Len(a[var]) \/ j >= Len(a[neighbor])
                      THEN "IndexError"
                      ELSE IF Char(a[var], i) # Char(a[neighbor], j)
                           THEN "False"
                           ELSE consistentNeighbors(a, var, Tail(nbs))
             ELSE consistentNeighbors(a, var, Tail(nbs))

\* consistent, outer loop: for var, word in assignment.items()
RECURSIVE consistentItems(_, _, _)
consistentItems(a, items, norder) ==
    IF items = <<>> THEN "True"
    ELSE LET var == Head(items)
         IN  IF Len(a[var]) # var.length
             THEN "False"
             ELSE LET r == consistentNeighbors(a, var, norder[var])
                  IN  IF r # "True" THEN r
                      ELSE consistentItems(a, Tail(items), norder)

\* consistent without the loop over the neighbors
consistent_ignoresOverlaps(a, items, norder) ==
    IF Cardinality({a[v] : v \in DOMAIN a}) # Cardinality(DOMAIN a)
    THEN "False"
    ELSE IF \E v \in DOMAIN a : Len(a[v]) # v.length THEN "False" ELSE "True"

\* consistent without the test that the words are distinct
consistent_allowsRepeats(a, items, norder) == consistentItems(a, items, norder)

\* consistent without the test of the word's length
RECURSIVE consistentItems_ignoresLength(_, _, _)
consistentItems_ignoresLength(a, items, norder) ==
    IF items = <<>> THEN "True"
    ELSE LET r == consistentNeighbors(a, Head(items), norder[Head(items)])
         IN  IF r # "True" THEN r
             ELSE consistentItems_ignoresLength(a, Tail(items), norder)

consistent_ignoresLength(a, items, norder) ==
    IF Cardinality({a[v] : v \in DOMAIN a}) # Cardinality(DOMAIN a)
    THEN "False"
    ELSE consistentItems_ignoresLength(a, items, norder)

\* consistent(assignment): "True", "False", or "IndexError" when a word
\* shorter than its slot is indexed at an overlap.  items is the order of
\* assignment.items(), norder the order of each neighbors(var).
consistent(a, items, norder) ==
    IF Cardinality({a[v] : v \in DOMAIN a}) # Cardinality(DOMAIN a)
    THEN "False"
    ELSE consistentItems(a, items, norder)

\* order_domain_values that counts the assigned neighbors too
order_domain_values_countsAssigned(var, a, worder) ==
    LET ruledOut(w1) ==
            [neighbor \in neighbors(var) |->
                Cardinality(
                    {w2 \in domains[neighbor] :
                        Char(w1, overlaps[var, neighbor][1])
                            # Char(w2, overlaps[var, neighbor][2])})]
        count == [k \in 1..Len(worder) |->
                     SumOver(ruledOut(worder[k]), neighbors(var))]
    IN  sorted(worder, count)

\* order_domain_values that keys its dict by the count instead of the word:
\* of the words with the same count only one is returned
order_domain_values_keyedByCount(var, a, worder) ==
    LET ruledOut(w1) ==
            [neighbor \in neighbors(var) |->
                IF neighbor \in DOMAIN a THEN 0
                ELSE Cardinality(
                        {w2 \in domains[neighbor] :
                            Char(w1, overlaps[var, neighbor][1])
                                # Char(w2, overlaps[var, neighbor][2])})]
        count == [k \in 1..Len(worder) |->
                     SumOver(ruledOut(worder[k]), neighbors(var))]
        kept == {k \in 1..Len(worder) :
                    \A m \in 1..Len(worder) : count[m] = count[k] => m <= k}
        last == SelectSeq([k \in 1..Len(worder) |-> k],
                          LAMBDA k : k \in kept)
    IN  sorted([r \in 1..Len(last) |-> worder[last[r]]],
               [r \in 1..Len(last) |-> count[last[r]]])

\* order_domain_values(var, assignment); worder is the iteration order of
\* self.domains[var]
order_domain_values(var, a, worder) ==
    LET ruledOut(w1) ==
            [neighbor \in neighbors(var) |->
                IF neighbor \in DOMAIN a THEN 0
                ELSE Cardinality(
                        {w2 \in domains[neighbor] :
                            Char(w1, overlaps[var, neighbor][1])
                                # Char(w2, overlaps[var, neighbor][2])})]
        count == [k \in 1..Len(worder) |->
                     SumOver(ruledOut(worder[k]), neighbors(var))]
    IN  sorted(worder, count)

\* select_unassigned_variable(assignment); vorder is the iteration order of
\* self.crossword.variables
select_unassigned_variable(a, vorder) ==
    LET Unassigned(var) == var \notin DOMAIN a
        unassigned == SelectSeq(vorder, Unassigned)
        ranked == sorted(unassigned,
                     [k \in 1..Len(unassigned) |->
                         Cardinality(domains[unassigned[k]])])
        byDegree == sortedReverse(unassigned,
                     [k \in 1..Len(unassigned) |->
                         Cardinality(neighbors(unassigned[k]))])
    IN  IF unassigned = ranked THEN byDegree[1] ELSE ranked[1]

-----------------------------------------------------------------------------
(* Tic-tac-toe (src/pset0-search/tictactoe/tictactoe.py) *)

X == "X"
O == "O"
EMPTY == "EMPTY"

Cells == (0..2) \X (0..2)

\* initial_state()
initial_state == [c \in Cells |-> EMPTY]

MAX == 1
MIN == -1

\* player(board): X moves when the number of marks is even
player(b) ==
    LET count == Cardinality({c \in Cells : b[c] # EMPTY})
    IN  IF count % 2 = 1 THEN O ELSE X

\* actions(board)
actions(b) == {c \in Cells : b[c] = EMPTY}

\* result(board, action), for an action on an empty cell
resultBoard(b, action) == [b EXCEPT ![action] = player(b)]

\* board + get_columns(board) + get_diagonals(board): the three rows, the
\* three columns and the two diagonals, as lists of cells
rows ==
    <<  <<<<0, 0>>, <<0, 1>>, <<0, 2>>>>,
        <<<<1, 0>>, <<1, 1>>, <<1, 2>>>>,
        <<<<2, 0>>, <<2, 1>>, <<2, 2>>>>,
        <<<<0, 0>>, <<1, 0>>, <<2, 0>>>>,
        <<<<0, 1>>, <<1, 1>>, <<2, 1>>>>,
        <<<<0, 2>>, <<1, 2>>, <<2, 2>>>>,
        <<<<0, 0>>, <<1, 1>>, <<2, 2>>>>,
        <<<<0, 2>>, <<1, 1>>, <<2, 0>>>>  >>

\* three_in_a_row(row): row.count(row[0]) == 3
three_in_a_row(b, row) ==
    Cardinality({k \in 1..3 : b[row[k]] = b[row[1]]}) = 3

\* winner(board): the mark of the first line that is full of one mark, or
\* EMPTY (None) when there is none
winner(b) ==
    LET won == {r \in 1..Len(rows) :
                   b[rows[r][1]] # EMPTY /\ three_in_a_row(b, rows[r])}
    IN  IF won = {} THEN EMPTY
        ELSE b[rows[CHOOSE r \in won : \A q \in won : r <= q][1]]

\* all_cells_filled(board)
all_cells_filled(b) == \A c \in Cells : b[c] # EMPTY

\* terminal(board)
terminal(b) == winner(b) # EMPTY \/ all_cells_filled(b)

\* utility(board)
utility(b) ==
    IF winner(b) = X THEN MAX ELSE IF winner(b) = O THEN MIN ELSE 0

max(a, b) == IF a >= b THEN a ELSE b
min(a, b) == IF a <= b THEN a ELSE b

\* the orders in which the set actions(board) is iterated: the cells in a
\* scan of the board, of which the empty ones are visited
RowMajor == [k \in 1..9 |-> <<(k - 1) \div 3, (k - 1) % 3>>]
ColumnMajor == [k \in 1..9 |-> <<(k - 1) % 3, (k - 1) \div 3>>]
Reversed(seq) == [k \in 1..Len(seq) |-> seq[Len(seq) + 1 - k]]
ActionOrders ==
    {RowMajor, ColumnMajor, Reversed(RowMajor), Reversed(ColumnMajor)}

\* for action in actions(board)
ActionList(b, order) == SelectSeq(order, LAMBDA c : b[c] = EMPTY)

RECURSIVE maxvalue(_, _, _, _)
RECURSIVE minvalue(_, _, _, _)
RECURSIVE maxvalueLoop(_, _, _, _, _, _)
RECURSIVE minvalueLoop(_, _, _, _, _, _)

\* maxvalue, the for loop: todo are the actions not visited yet
maxvalueLoop(b, todo, v, alpha, beta, order) ==
    IF todo = <<>> THEN v
    ELSE LET v2 == max(v, minvalue(resultBoard(b, Head(todo)), alpha, beta,
                                   order))
             alpha2 == max(v2, alpha)
         IN  IF beta <= alpha2 THEN v2
             ELSE maxvalueLoop(b, Tail(todo), v2, alpha2, beta, order)

\* maxvalue(board, alpha, beta)
maxvalue(b, alpha, beta, order) ==
    IF terminal(b) THEN utility(b)
    ELSE maxvalueLoop(b, ActionList(b, order), MIN, alpha, beta, order)

\* minvalue, the for loop
minvalueLoop(b, todo, v, alpha, beta, order) ==
    IF todo = <<>> THEN v
    ELSE LET v2 == min(v, maxvalue(resultBoard(b, Head(todo)), alpha, beta,
                                   order))
             beta2 == min(v2, beta)
         IN  IF beta2 <= alpha THEN v2
             ELSE minvalueLoop(b, Tail(todo), v2, alpha, beta2, order)

\* minvalue(board, alpha, beta)
minvalue(b, alpha, beta, order) ==
    IF terminal(b) THEN utility(b)
    ELSE minvalueLoop(b, ActionList(b, order), MAX, alpha, beta, order)

\* minimax has not been called on the board
NoMove == [called |-> FALSE, isNone |-> TRUE, action |-> <<0, 0>>]

\* the value minimax returns: None, or an action
NoneMove == [called |-> TRUE, isNone |-> TRUE, action |-> <<0, 0>>]
SomeMove(action) == [called |-> TRUE, isNone |-> FALSE, action |-> action]

\* minimax, the for loop of the maximizer (turn == X); best is `move`
RECURSIVE minimaxLoopX(_, _, _, _, _, _, _)
minimaxLoopX(b, todo, v, alpha, beta, best, order) ==
    IF todo = <<>> THEN best
    ELSE LET action == Head(todo)
             new_v == minvalue(resultBoard(b, action), alpha, beta, order)
             alpha2 == max(new_v, alpha)
             best2 == IF new_v > v THEN SomeMove(action) ELSE best
             v2 == IF new_v > v THEN new_v ELSE v
         IN  IF beta <= alpha2 THEN best2
             ELSE minimaxLoopX(b, Tail(todo), v2, alpha2, beta, best2, order)

\* minimax, the for loop of the minimizer (turn == O)
RECURSIVE minimaxLoopO(_, _, _, _, _, _, _)
minimaxLoopO(b, todo, v, alpha, beta, best, order) ==
    IF todo = <<>> THEN best
    ELSE LET action == Head(todo)
             new_v == maxvalue(resultBoard(b, action), alpha, beta, order)
             beta2 == min(new_v, beta)
             best2 == IF new_v < v THEN SomeMove(action) ELSE best
             v2 == IF new_v < v THEN new_v ELSE v
         IN  IF beta2 <= alpha THEN best2
             ELSE minimaxLoopO(b, Tail(todo), v2, alpha, beta2, best2, order)

\* minimax(board)
minimax(b, order) ==
    IF terminal(b) THEN NoneMove
    ELSE IF player(b) = X
         THEN minimaxLoopX(b, ActionList(b, order), MIN, MIN, MAX, NoneMove,
                           order)
         ELSE minimaxLoopO(b, ActionList(b, order), MAX, MIN, MAX, NoneMove,
                           order)

-----------------------------------------------------------------------------
(* Minesweeper (src/pset1-knowledge/minesweeper/minesweeper.py) *)

\* the cells (i, j) of the board
Grid == (0..(Height - 1)) \X (0..(Width - 1))

\* the boards Minesweeper.__init__ can lay out
MineFields == {F \in SUBSET Grid : Cardinality(F) <= MaxMines}

\* add_knowledge: the cells within one row and column of cell, in bounds,
\* without the cell itself (the list `neighbors`)
neighboringCells(cell) ==
    {c \in Grid : /\ c # cell
                  /\ c[1] \in (cell[1] - 1)..(cell[1] + 1)
                  /\ c[2] \in (cell[2] - 1)..(cell[2] + 1)}

\* Minesweeper.nearby_mines(cell)
nearby_mines(cell) == Cardinality(neighboringCells(cell) \cap field)

\* Sentence(cells, count)
Sentence(cellSet, count) == [cells |-> cellSet, count |-> count]

\* Sentence.is_empty
is_empty(s) == Cardinality(s.cells) = 0

\* Sentence.known_mines
known_mines(s) == IF Cardinality(s.cells) = s.count THEN s.cells ELSE {}

\* Sentence.known_safes
known_safes(s) == IF s.count = 0 THEN s.cells ELSE {}

\* Sentence.mark_mine without `self.count -= 1`
Sentence_mark_mine_keepsCount(s, cell) ==
    IF cell \in s.cells
    THEN [cells |-> s.cells \ {cell}, count |-> s.count]
    ELSE s

\* Sentence.mark_mine
Sentence_mark_mine(s, cell) ==
    IF cell \in s.cells
    THEN [cells |-> s.cells \ {cell}, count |-> s.count - 1]
    ELSE s

\* Sentence.mark_safe
Sentence_mark_safe(s, cell) ==
    IF cell \in s.cells
    THEN [cells |-> s.cells \ {cell}, count |-> s.count]
    ELSE s

\* MinesweeperAI.__init__
NewAI == [moves_made |-> {}, mines |-> {}, safes |-> {}, knowledge |-> <<>>]

\* MinesweeperAI.mark_mine
mark_mine(a, cell) ==
    [a EXCEPT !.mines = @ \cup {cell},
              !.knowledge = [k \in DOMAIN @ |-> Sentence_mark_mine(@[k], cell)]]

\* MinesweeperAI.mark_safe
mark_safe(a, cell) ==
    [a EXCEPT !.safes = @ \cup {cell},
              !.knowledge = [k \in DOMAIN @ |-> Sentence_mark_safe(@[k], cell)]]

\* add_knowledge: for safe in self.safes: new_sentence.mark_safe(safe)
RECURSIVE markSafesIn(_, _)
markSafesIn(s, safes) ==
    IF safes = {} THEN s
    ELSE LET safe == CHOOSE c \in safes : TRUE
         IN  markSafesIn(Sentence_mark_safe(s, safe), safes \ {safe})

\* add_knowledge: for mine in self.mines: new_sentence.mark_mine(mine)
RECURSIVE markMinesIn(_, _)
markMinesIn(s, mines) ==
    IF mines = {} THEN s
    ELSE LET mine == CHOOSE c \in mines : TRUE
         IN  markMinesIn(Sentence_mark_mine(s, mine), mines \ {mine})

\* add_knowledge: for safe in new_safes: self.mark_safe(safe)
RECURSIVE markSafes(_, _)
markSafes(a, new_safes) ==
    IF new_safes = {} THEN a
    ELSE LET safe == CHOOSE c \in new_safes : TRUE
         IN  markSafes(mark_safe(a, safe), new_safes \ {safe})

\* add_knowledge: for mine in new_mines: self.mark_mine(mine)
RECURSIVE markMines(_, _)
markMines(a, new_mines) ==
    IF new_mines = {} THEN a
    ELSE LET mine == CHOOSE c \in new_mines : TRUE
         IN  markMines(mark_mine(a, mine), new_mines \ {mine})

\* the value None of make_inference
NoSentence == [cells |-> {}, count |-> 0 - 1]

\* MinesweeperAI.make_inference
make_inference(superset, subset) ==
    IF subset.cells \subseteq superset.cells /\ superset.cells # subset.cells
    THEN Sentence(superset.cells \ subset.cells,
                  superset.count - subset.count)
    ELSE NoSentence

\* itertools.permutations(range(n), 2): the pairs (i, j), i # j, in
\* lexicographic order (1-based here)
IndexPairs(n) ==
    LET all == [k \in 1..(n * n) |-> <<((k - 1) \div n) + 1, ((k - 1) % n) + 1>>]
    IN  SelectSeq(all, LAMBDA p : p[1] # p[2])

\* add_knowledge, the loop over the pairs of the sentences known when the
\* loop starts (known); kb is self.knowledge, which grows
RECURSIVE addInferences(_, _, _)
addInferences(known, pairs, kb) ==
    IF pairs = <<>> THEN kb
    ELSE LET inference == make_inference(known[Head(pairs)[1]],
                                         known[Head(pairs)[2]])
         IN  IF inference # NoSentence
                /\ ~ \E k \in 1..Len(kb) : kb[k] = inference
             THEN addInferences(known, Tail(pairs), Append(kb, inference))
             ELSE addInferences(known, Tail(pairs), kb)

\* list.remove(x): the first element equal to x is removed
RemoveFirst(kb, x) ==
    LET p == CHOOSE k \in 1..Len(kb) :
                 kb[k] = x /\ \A m \in 1..(k - 1) : kb[m] # x
    IN  SubSeq(kb, 1, p - 1) \o SubSeq(kb, p + 1, Len(kb))

\* add_knowledge, `for sentence in self.knowledge: if sentence.is_empty():
\* self.knowledge.remove(sentence)`: the list is changed while it is
\* iterated, so the sentence after a removed one is skipped.  idx is the
\* position of the iterator (1-based).
RECURSIVE removeEmpty(_, _)
removeEmpty(kb, idx) ==
    IF idx > Len(kb) THEN kb
    ELSE IF is_empty(kb[idx])
         THEN removeEmpty(RemoveFirst(kb, kb[idx]), idx + 1)
         ELSE removeEmpty(kb, idx + 1)

\* MinesweeperAI.add_knowledge(cell, count): the object it leaves
add_knowledge(a, cell, count) ==
    LET moved == [a EXCEPT !.moves_made = @ \cup {cell}]
        marked == mark_safe(moved, cell)
        new_sentence ==
            markMinesIn(markSafesIn(Sentence(neighboringCells(cell), count),
                                    marked.safes),
                        marked.mines)
        added == [marked EXCEPT !.knowledge = Append(@, new_sentence)]
        new_safes == UNION {known_safes(added.knowledge[k]) :
                               k \in 1..Len(added.knowledge)}
        new_mines == UNION {known_mines(added.knowledge[k]) :
                               k \in 1..Len(added.knowledge)}
        known == markMines(markSafes(added, new_safes), new_mines)
        inferred == addInferences(known.knowledge,
                                  IndexPairs(Len(known.knowledge)),
                                  known.knowledge)
    IN  [known EXCEPT !.knowledge = removeEmpty(inferred, 1)]

-----------------------------------------------------------------------------
(* Construction *)

NoProbe == [fn |-> "none", a |-> EmptyAssignment, var |-> NoVariable,
            ret |-> "none", retList |-> <<>>]

\* CrosswordCreator.__init__: every domain is a copy of the vocabulary
Init ==
    /\ crossword \in {[variables |-> S, words |-> W] :
                          S \in Structures, W \in Vocabularies}
    /\ domains = [var \in crossword.variables |-> crossword.words]
    /\ pc = "constructed"
    /\ queue = <<>>
    /\ ac3ret = FALSE
    /\ assignment = EmptyAssignment
    /\ stack = <<>>
    /\ entry = EmptyAssignment
    /\ result = None
    /\ probe = NoProbe
    /\ arcs = NoArcs
    /\ ac3prev = NoPrevious
    /\ board = initial_state
    /\ move = NoMove
    /\ field = {}
    /\ ai = NewAI
    /\ calls = 0

-----------------------------------------------------------------------------
(* Actions *)

\* enforce_node_consistency()
EnforceNodeConsistency ==
    /\ pc = "constructed"
    /\ domains' = NodeConsistent(domains)
    /\ pc' = "nc"
    /\ UNCHANGED <<field, ai, calls>>
    /\ UNCHANGED <<arcs, ac3prev, board, move>>
    /\ UNCHANGED <<crossword, queue, ac3ret, assignment, stack, entry,
                   result, probe>>

\* solve: self.ac3(), up to the while loop
Ac3Call ==
    /\ pc = "nc"
    /\ arcs' = NoArcs
    /\ queue' \in InitialQueues(NoArcs)
    /\ pc' = "ac3"
    /\ UNCHANGED <<field, ai, calls>>
    /\ UNCHANGED <<ac3prev, board, move>>
    /\ UNCHANGED <<crossword, domains, ac3ret, assignment, stack, entry,
                   result, probe>>

\* ac3(arcs) called directly, with None or with a list, up to the while loop
Ac3CallArcs ==
    /\ pc = "nc"
    /\ \E a \in ArcsArguments :
          /\ arcs' = a
          /\ queue' \in InitialQueues(a)
    /\ pc' = "ac3"
    /\ UNCHANGED <<field, ai, calls>>
    /\ UNCHANGED <<ac3prev, board, move>>
    /\ UNCHANGED <<crossword, domains, ac3ret, assignment, stack, entry,
                   result, probe>>

\* ac3() called again right after ac3() has returned
Ac3CallAgain ==
    /\ pc = "ac3_ret"
    /\ arcs = NoArcs
    /\ ~ac3prev.called
    /\ ac3prev' = [called |-> TRUE, arcs |-> arcs, ret |-> ac3ret,
                   domains |-> domains]
    /\ arcs' = NoArcs
    /\ queue' \in InitialQueues(NoArcs)
    /\ pc' = "ac3"
    /\ UNCHANGED <<field, ai, calls>>
    /\ UNCHANGED <<board, move>>
    /\ UNCHANGED <<crossword, domains, ac3ret, assignment, stack, entry,
                   result, probe>>

\* Ac3Step without `queue = queue[1:]`: the arc taken stays at the head of
\* the queue
Ac3Step_neverPops ==
    /\ pc = "ac3"
    /\ queue # <<>>
    /\ LET x == queue[1][1]
           y == queue[1][2]
           r == revise(domains, x, y)
       IN  /\ domains' = r.domains
           /\ IF r.revised
              THEN IF r.domains[x] = {}
                   THEN /\ queue' = <<>>
                        /\ ac3ret' = FALSE
                        /\ pc' = "ac3_ret"
                   ELSE /\ \E zorder \in VariableOrders(neighbors(x)) :
                              queue' = Enqueue(queue, zorder, x, y)
                        /\ UNCHANGED <<ac3ret, pc>>
              ELSE /\ queue' = queue
                   /\ UNCHANGED <<ac3ret, pc>>
    /\ UNCHANGED <<field, ai, calls>>
    /\ UNCHANGED <<arcs, ac3prev, board, move>>
    /\ UNCHANGED <<crossword, assignment, stack, entry, result, probe>>

\* ac3, one iteration of the while loop
Ac3Step ==
    /\ pc = "ac3"
    /\ queue # <<>>
    /\ LET x == queue[1][1]
           y == queue[1][2]
           rest == Tail(queue)
           r == revise(domains, x, y)
       IN  /\ domains' = r.domains
           /\ IF r.revised
              THEN IF r.domains[x] = {}
                   THEN /\ queue' = <<>>
                        /\ ac3ret' = FALSE
                        /\ pc' = "ac3_ret"
                   ELSE /\ \E zorder \in VariableOrders(neighbors(x)) :
                              queue' = Enqueue(rest, zorder, x, y)
                        /\ UNCHANGED <<ac3ret, pc>>
              ELSE /\ queue' = rest
                   /\ UNCHANGED <<ac3ret, pc>>
    /\ UNCHANGED <<field, ai, calls>>
    /\ UNCHANGED <<arcs, ac3prev, board, move>>
    /\ UNCHANGED <<crossword, assignment, stack, entry, result, probe>>

\* ac3, the queue is empty: return True
Ac3Return ==
    /\ pc = "ac3"
    /\ queue = <<>>
    /\ ac3ret' = TRUE
    /\ pc' = "ac3_ret"
    /\ UNCHANGED <<field, ai, calls>>
    /\ UNCHANGED <<arcs, ac3prev, board, move>>
    /\ UNCHANGED <<crossword, domains, queue, assignment, stack, entry,
                   result, probe>>

\* backtrack(a) called from outside; solve() passes dict()
BacktrackCall ==
    /\ pc = "ac3_ret"
    /\ \E a \in FittingAssignments :
          /\ assignment' = a
          /\ entry' = a
    /\ stack' = <<>>
    /\ pc' = "bt_call"
    /\ UNCHANGED <<field, ai, calls>>
    /\ UNCHANGED <<arcs, ac3prev, board, move>>
    /\ UNCHANGED <<crossword, domains, queue, ac3ret, result, probe>>

\* backtrack, from its entry to the head of the for loop
BacktrackEnter ==
    /\ pc = "bt_call"
    /\ IF assignment_complete(assignment)
       THEN /\ result' = Some(assignment)
            /\ pc' = "bt_ret"
            /\ UNCHANGED stack
       ELSE \E var \in {select_unassigned_variable(assignment, vorder) :
                            vorder \in VariableOrders(crossword.variables)} :
               \E values \in {order_domain_values(var, assignment, worder) :
                                 worder \in WordOrders(domains[var])} :
                   /\ stack' = Append(stack,
                         [var |-> var, ordered |-> values, values |-> values,
                          entry |-> assignment])
                   /\ pc' = "bt_loop"
                   /\ UNCHANGED result
    /\ UNCHANGED <<field, ai, calls>>
    /\ UNCHANGED <<arcs, ac3prev, board, move>>
    /\ UNCHANGED <<crossword, domains, queue, ac3ret, assignment, entry,
                   probe>>

\* the orders of assignment.items() inside the search: a dict keeps insertion
\* order, so the caller's keys come first (in the caller's order) and then
\* the variables of the running calls, outermost first
ItemOrders(a) ==
    {o \in VariableOrders(DOMAIN a) :
        \A k \in 1..Len(stack) :
            o[Cardinality(DOMAIN a) - Len(stack) + k] = stack[k].var}

\* BacktrackTry that also removes the value it tries from the variable's
\* domain
BacktrackTry_removesTried ==
    /\ pc = "bt_loop"
    /\ stack[Len(stack)].values # <<>>
    /\ LET frame == stack[Len(stack)]
           value == Head(frame.values)
           tried == Put(assignment, frame.var, value)
       IN  /\ stack' = [stack EXCEPT ![Len(stack)].values = Tail(@)]
           /\ domains' = [domains EXCEPT ![frame.var] = @ \ {value}]
           /\ \E c \in {consistent(tried, items, norder) :
                          items \in ItemOrders(tried),
                          norder \in NeighborOrders} :
                     IF c = "True"
                     THEN /\ assignment' = tried
                          /\ pc' = "bt_call"
                     ELSE /\ assignment' = Pop(tried, frame.var)
                          /\ pc' = "bt_loop"
    /\ UNCHANGED <<field, ai, calls>>
    /\ UNCHANGED <<arcs, ac3prev, board, move>>
    /\ UNCHANGED <<crossword, queue, ac3ret, entry, result, probe>>

\* backtrack, one iteration of the for loop up to the recursive call
BacktrackTry ==
    /\ pc = "bt_loop"
    /\ stack[Len(stack)].values # <<>>
    /\ LET frame == stack[Len(stack)]
           value == Head(frame.values)
           tried == Put(assignment, frame.var, value)
       IN  /\ stack' = [stack EXCEPT ![Len(stack)].values = Tail(@)]
           /\ \E c \in {consistent(tried, items, norder) :
                          items \in ItemOrders(tried),
                          norder \in NeighborOrders} :
                     IF c = "True"
                     THEN /\ assignment' = tried
                          /\ pc' = "bt_call"
                     ELSE IF c = "False"
                          THEN /\ assignment' = Pop(tried, frame.var)
                               /\ pc' = "bt_loop"
                          ELSE /\ assignment' = tried
                               /\ pc' = "raised"
    /\ UNCHANGED <<field, ai, calls>>
    /\ UNCHANGED <<arcs, ac3prev, board, move>>
    /\ UNCHANGED <<crossword, domains, queue, ac3ret, entry, result, probe>>

\* backtrack, the recursive call has returned to a for loop
BacktrackResume ==
    /\ pc = "bt_ret"
    /\ stack # <<>>
    /\ LET frame == stack[Len(stack)]
       IN  IF Truthy(result)
           THEN /\ stack' = SubSeq(stack, 1, Len(stack) - 1)
                /\ UNCHANGED <<assignment, pc>>
           ELSE /\ assignment' = Pop(assignment, frame.var)
                /\ pc' = "bt_loop"
                /\ UNCHANGED stack
    /\ UNCHANGED <<field, ai, calls>>
    /\ UNCHANGED <<arcs, ac3prev, board, move>>
    /\ UNCHANGED <<crossword, domains, queue, ac3ret, entry, result, probe>>

\* backtrack, the for loop is exhausted: return None
BacktrackExhausted ==
    /\ pc = "bt_loop"
    /\ stack[Len(stack)].values = <<>>
    /\ result' = None
    /\ stack' = SubSeq(stack, 1, Len(stack) - 1)
    /\ pc' = "bt_ret"
    /\ UNCHANGED <<field, ai, calls>>
    /\ UNCHANGED <<arcs, ac3prev, board, move>>
    /\ UNCHANGED <<crossword, domains, queue, ac3ret, assignment, entry,
                   probe>>

\* the outermost backtrack call returns to its caller
BacktrackReturn ==
    /\ pc = "bt_ret"
    /\ stack = <<>>
    /\ pc' = "done"
    /\ UNCHANGED <<field, ai, calls>>
    /\ UNCHANGED <<arcs, ac3prev, board, move>>
    /\ UNCHANGED <<crossword, domains, queue, ac3ret, assignment, stack,
                   entry, result, probe>>

\* consistent(a) called directly, on any assignment over the vocabulary
CallConsistent ==
    /\ pc = "nc"
    /\ \E a \in AnyAssignments :
          \E ret \in {consistent(a, items, norder) :
                         items \in VariableOrders(DOMAIN a),
                         norder \in NeighborOrders} :
              probe' = [fn |-> "consistent", a |-> a, var |-> NoVariable,
                        ret |-> ret, retList |-> <<>>]
    /\ pc' = "probe"
    /\ UNCHANGED <<field, ai, calls>>
    /\ UNCHANGED <<arcs, ac3prev, board, move>>
    /\ UNCHANGED <<crossword, domains, queue, ac3ret, assignment, stack,
                   entry, result>>

\* order_domain_values(var, a) called directly
CallOrderDomainValues ==
    /\ pc = "nc"
    /\ \E var \in crossword.variables, a \in FittingAssignments :
          \E values \in {order_domain_values(var, a, worder) :
                            worder \in WordOrders(domains[var])} :
              probe' = [fn |-> "order_domain_values", a |-> a, var |-> var,
                        ret |-> "list", retList |-> values]
    /\ pc' = "probe"
    /\ UNCHANGED <<field, ai, calls>>
    /\ UNCHANGED <<arcs, ac3prev, board, move>>
    /\ UNCHANGED <<crossword, domains, queue, ac3ret, assignment, stack,
                   entry, result>>

\* the direct call has returned
ProbeReturn ==
    /\ pc = "probe"
    /\ probe' = NoProbe
    /\ pc' = "nc"
    /\ UNCHANGED <<field, ai, calls>>
    /\ UNCHANGED <<arcs, ac3prev, board, move>>
    /\ UNCHANGED <<crossword, domains, queue, ac3ret, assignment, stack,
                   entry, result>>

Next ==
    \/ EnforceNodeConsistency
    \/ Ac3Call
    \/ Ac3Step
    \/ Ac3Return
    \/ BacktrackCall
    \/ BacktrackEnter
    \/ BacktrackTry
    \/ BacktrackResume
    \/ BacktrackExhausted
    \/ BacktrackReturn

\* solve() step by step, and backtrack called directly after ac3
Spec == Init /\ [][Next]_vars

NextCalls ==
    \/ EnforceNodeConsistency
    \/ CallConsistent
    \/ CallOrderDomainValues
    \/ ProbeReturn

InitCalls == Init /\ Cardinality(crossword.words) <= MaxCallVocab

\* consistent and order_domain_values called directly on node-consistent
\* domains
SpecCalls == InitCalls /\ [][NextCalls]_vars

\* tictactoe: the player to move makes a legal move
Play ==
    /\ ~terminal(board)
    /\ \E action \in actions(board) : board' = resultBoard(board, action)
    /\ move' = NoMove
    /\ UNCHANGED <<field, ai, calls>>
    /\ UNCHANGED <<arcs, ac3prev>>
    /\ UNCHANGED <<crossword, domains, pc, queue, ac3ret, assignment, stack,
                   entry, result, probe>>

\* tictactoe: minimax(board) is called and returns
CallMinimax ==
    /\ ~move.called
    /\ Cardinality(actions(board)) <= MaxEmpty
    /\ move' \in {minimax(board, order) : order \in ActionOrders}
    /\ UNCHANGED <<field, ai, calls>>
    /\ UNCHANGED <<arcs, ac3prev, board>>
    /\ UNCHANGED <<crossword, domains, pc, queue, ac3ret, assignment, stack,
                   entry, result, probe>>

NextGame ==
    \/ Play
    \/ CallMinimax

InitGame == Init /\ crossword = [variables |-> Single, words |-> {}]

\* a game of tic-tac-toe by legal alternating play, with minimax called on
\* the boards it passes through
SpecGame == InitGame /\ [][NextGame]_vars

\* revise(x, y) called directly, on two different variables that overlap or
\* not, before a call of ac3 or after it
CallRevise ==
    /\ pc \in {"nc", "ac3_ret"}
    /\ \E x, y \in crossword.variables :
          /\ x # y
          /\ LET r == revise(domains, x, y)
             IN  /\ domains' = r.domains
                 /\ probe' = [fn |-> "revise", a |-> EmptyAssignment,
                              var |-> x,
                              ret |-> IF r.revised THEN "True" ELSE "False",
                              retList |-> <<x, y>>]
    /\ pc' = "revised"
    /\ UNCHANGED <<field, ai, calls>>
    /\ UNCHANGED <<arcs, ac3prev, board, move>>
    /\ UNCHANGED <<crossword, queue, ac3ret, assignment, stack, entry,
                   result>>

NextRevise ==
    \/ EnforceNodeConsistency
    \/ Ac3CallArcs
    \/ Ac3Step
    \/ Ac3Return
    \/ CallRevise

\* revise called directly on the domains that node consistency and the runs
\* of ac3 leave
SpecRevise == Init /\ [][NextRevise]_vars

\* a call of ac3 keeps running: the while loop takes its next iteration, and
\* returns when the queue is empty
Ac3Fairness == WF_vars(Ac3Step) /\ WF_vars(Ac3Return)

\* minesweeper: the player reveals a cell that holds no mine and the AI is
\* told the number of mines around it
AddKnowledge ==
    /\ calls < MaxMoves
    /\ \E cell \in Grid \ field :
          ai' = add_knowledge(ai, cell, nearby_mines(cell))
    /\ calls' = calls + 1
    /\ UNCHANGED <<arcs, ac3prev, board, move, field>>
    /\ UNCHANGED <<crossword, domains, pc, queue, ac3ret, assignment, stack,
                   entry, result, probe>>

NextSweeper == AddKnowledge

\* Minesweeper(height, width, mines) and MinesweeperAI(height, width)
InitSweeper ==
    /\ crossword = [variables |-> Single, words |-> {}]
    /\ domains = [var \in crossword.variables |-> crossword.words]
    /\ pc = "constructed"
    /\ queue = <<>>
    /\ ac3ret = FALSE
    /\ assignment = EmptyAssignment
    /\ stack = <<>>
    /\ entry = EmptyAssignment
    /\ result = None
    /\ probe = NoProbe
    /\ arcs = NoArcs
    /\ ac3prev = NoPrevious
    /\ board = initial_state
    /\ move = NoMove
    /\ field \in MineFields
    /\ ai = NewAI
    /\ calls = 0

\* a game of minesweeper in which the AI is told true counts of safe cells
SpecSweeper == InitSweeper /\ [][NextSweeper]_vars

NextAc3 ==
    \/ EnforceNodeConsistency
    \/ Ac3CallArcs
    \/ Ac3Step
    \/ Ac3Return
    \/ Ac3CallAgain

\* ac3 called directly on node-consistent domains, with or without a list of
\* arcs, and then once more
SpecAc3 == Init /\ [][NextAc3]_vars

\* the same on the smaller vocabularies, with every call of ac3 running on
\* until it returns
SpecAc3Live == InitCalls /\ [][NextAc3]_vars /\ Ac3Fairness

-----------------------------------------------------------------------------
(* The consistency checker as the specification states it *)

Distinct(a) == \A u, v \in DOMAIN a : u # v => a[u] # a[v]

LengthsFit(a) == \A v \in DOMAIN a : Len(a[v]) = v.length

OverlapsAgree(a) ==
    \A u, v \in DOMAIN a :
        overlaps[u, v] # NoOverlap =>
            Char(a[u], overlaps[u, v][1]) = Char(a[v], overlaps[u, v][2])

Satisfies(a) == LengthsFit(a) /\ Distinct(a) /\ OverlapsAgree(a)

Complete(a) == DOMAIN a = crossword.variables

\* a complete consistent assignment of vocabulary words exists
Solvable ==
    \E a \in [crossword.variables -> crossword.words] : Satisfies(a)

\* solve(): node consistency, ac3(), then backtrack(dict())
SolveRun == entry = EmptyAssignment

SomeDomainEmpty == \E v \in crossword.variables : domains[v] = {}

\* the domains enforce_node_consistency leaves, from the vocabulary
NodeConsistentDomains ==
    NodeConsistent([var \in crossword.variables |-> crossword.words])

-----------------------------------------------------------------------------
(* C1 - C10 *)

\* C1: whenever solve() returns an assignment rather than None, it assigns a
\* word to every variable and satisfies the consistency checker: words
\* pairwise distinct, lengths right, characters equal at every overlap.
SolveSound ==
    (pc = "done" /\ SolveRun /\ ~result.isNone)
        => Complete(result.value) /\ Satisfies(result.value)

\* solve() has returned an assignment for the three-slot structure, from
\* domains that still held two words disagreeing at an overlap
SolveSoundWitness ==
    /\ pc = "done" /\ SolveRun /\ ~result.isNone
    /\ crossword.variables = Zed
    /\ \E x, y \in crossword.variables :
          /\ overlaps[x, y] # NoOverlap
          /\ \E w \in domains[x], w2 \in domains[y] :
                Char(w, overlaps[x, y][1]) # Char(w2, overlaps[x, y][2])

\* C2: if some complete assignment of vocabulary words satisfies the
\* consistency checker, solve() returns an assignment and not None, whatever
\* the iteration orders.
SolveComplete ==
    (pc = "done" /\ SolveRun /\ Solvable) => ~result.isNone

\* solve() has returned for a solvable three-slot puzzle in which ac3 removed
\* a word
SolveCompleteWitness ==
    /\ pc = "done" /\ SolveRun /\ Solvable /\ ~result.isNone
    /\ crossword.variables = Zed
    /\ domains # NodeConsistentDomains

\* C3 as claimed: backtrack(assignment), called with any assignment over the
\* puzzle's variables, returns None or a complete assignment that satisfies
\* the consistency checker.
BacktrackAnyEntry ==
    pc = "done"
        => result.isNone \/ (Complete(result.value) /\ Satisfies(result.value))

\* C3 amended: backtrack(assignment), called after node consistency with an
\* assignment that itself satisfies the consistency checker (empty, partial
\* or complete), returns None or a complete assignment that satisfies the
\* consistency checker.
BacktrackConsistentEntry ==
    (pc = "done" /\ Satisfies(entry))
        => result.isNone \/ (Complete(result.value) /\ Satisfies(result.value))

\* backtrack was given a consistent assignment of one of three variables and
\* returned a completion of it
BacktrackConsistentEntryWitness ==
    /\ pc = "done" /\ Satisfies(entry) /\ ~result.isNone
    /\ crossword.variables = Zed
    /\ Cardinality(DOMAIN entry) = 1
    /\ \A v \in DOMAIN entry : result.value[v] = entry[v]

\* C4: if a variable's domain is empty after enforce_node_consistency or
\* becomes empty during ac3, solve() returns None: it raises nothing and
\* returns no assignment.
EmptyDomainSolveNone ==
    (SolveRun /\ SomeDomainEmpty /\ pc \in {"done", "raised"})
        => pc = "done" /\ result.isNone

\* solve() has returned None for a puzzle where one slot has no word of its
\* length in the vocabulary and another slot has
EmptyDomainSolveNoneWitness ==
    /\ pc = "done" /\ SolveRun /\ result.isNone
    /\ \E v \in crossword.variables : NodeConsistentDomains[v] = {}
    /\ \E v \in crossword.variables : domains[v] # {}

\* C5: ac3 returns True only if no domain is empty on return, and returns
\* False whenever some domain is empty on return.
Ac3ReturnValue ==
    pc = "ac3_ret" => (ac3ret <=> ~SomeDomainEmpty)

\* C6: after ac3() with the default worklist on node-consistent domains has
\* returned True, every word left in X's domain has a partner in Y's domain
\* for every arc (X, Y), and revise(X, Y) returns False and changes nothing.
ArcConsistentAfterAc3 ==
    (pc = "ac3_ret" /\ ac3ret)
        => \A x, y \in crossword.variables :
              overlaps[x, y] # NoOverlap =>
                  /\ \A w \in domains[x] : \E w2 \in domains[y] :
                         Char(w, overlaps[x, y][1]) = Char(w2, overlaps[x, y][2])
                  /\ revise(domains, x, y) = [revised |-> FALSE,
                                              domains |-> domains]

\* ac3 has returned True after removing a word, leaving no domain empty
ArcConsistentAfterAc3Witness ==
    /\ pc = "ac3_ret" /\ ac3ret /\ ~SomeDomainEmpty
    /\ crossword.variables = Zed
    /\ domains # NodeConsistentDomains

\* the variables select_unassigned_variable chooses among in a call that was
\* given the assignment a, and those of them with the smallest domain
Unassigned(a) == crossword.variables \ DOMAIN a

MinimumRemaining(a) ==
    {v \in Unassigned(a) :
        \A u \in Unassigned(a) :
            Cardinality(domains[v]) <= Cardinality(domains[u])}

\* C7: select_unassigned_variable returns a variable that is not in the
\* assignment and whose domain is the smallest among the unassigned ones.
\* (Every frame of the search holds the variable selected for the assignment
\* the call was entered with.)
SelectMinimumRemaining ==
    \A k \in 1..Len(stack) :
        stack[k].var \in MinimumRemaining(stack[k].entry)

\* C8: when several unassigned variables share the minimum domain size, the
\* variable returned has the most neighbors among them.
SelectHighestDegree ==
    \A k \in 1..Len(stack) :
        LET tied == MinimumRemaining(stack[k].entry)
        IN  Cardinality(tied) > 1 =>
                \A v \in tied :
                    Cardinality(neighbors(stack[k].var))
                        >= Cardinality(neighbors(v))

\* the (neighbor, word) pairs that w1 rules out: neighbors of var that are not
\* in the assignment, words of theirs that differ from w1 at the overlap
RuledOut(var, a, w1) ==
    {p \in (neighbors(var) \ DOMAIN a) \X crossword.words :
        /\ p[2] \in domains[p[1]]
        /\ Char(w1, overlaps[var, p[1]][1])
               # Char(p[2], overlaps[var, p[1]][2])}

LeastConstrainingFirst(var, a, list) ==
    /\ Len(list) = Cardinality(domains[var])
    /\ {list[k] : k \in 1..Len(list)} = domains[var]
    /\ \A k, m \in 1..Len(list) :
          k < m => Cardinality(RuledOut(var, a, list[k]))
                      <= Cardinality(RuledOut(var, a, list[m]))

\* C9: order_domain_values(var, assignment) returns every word of var's domain
\* exactly once, in non-decreasing order of the number of (neighbor, word)
\* pairs it rules out among the neighbors that are not in the assignment.
OrderLeastConstraining ==
    probe.fn = "order_domain_values"
        => LeastConstrainingFirst(probe.var, probe.a, probe.retList)

\* order_domain_values has ordered two words that rule out different numbers
\* of words of a neighbor
OrderLeastConstrainingWitness ==
    /\ probe.fn = "order_domain_values"
    /\ Len(probe.retList) = 2
    /\ Cardinality(RuledOut(probe.var, probe.a, probe.retList[1]))
          < Cardinality(RuledOut(probe.var, probe.a, probe.retList[2]))

\* C10: consistent(assignment) returns True exactly when the assigned words
\* are pairwise distinct, each has its variable's length and every two
\* assigned overlapping variables agree at the overlap; the domains are the
\* ones it was called with.
ConsistentChecks ==
    probe.fn = "consistent"
        => /\ (probe.ret = "True") <=> Satisfies(probe.a)
           /\ domains = NodeConsistentDomains

\* consistent has returned True for a partial assignment of two overlapping
\* variables of the three-slot structure
ConsistentChecksWitness ==
    /\ probe.fn = "consistent" /\ probe.ret = "True"
    /\ crossword.variables = Zed
    /\ Cardinality(DOMAIN probe.a) = 2
    /\ \E u, v \in DOMAIN probe.a : overlaps[u, v] # NoOverlap

-----------------------------------------------------------------------------
(* C11 - C20 *)

\* C11: after enforce_node_consistency each variable's domain is exactly the
\* set of vocabulary words whose length is the variable's length: every
\* mismatched word is gone and no word of the right length is.
NodeConsistencyExact ==
    pc = "nc" =>
        \A var \in crossword.variables :
            domains[var] = {word \in crossword.words : Len(word) = var.length}

\* enforce_node_consistency has removed a word from a domain and kept another
\* word in it
NodeConsistencyExactWitness ==
    /\ pc = "nc"
    /\ \E var \in crossword.variables :
          domains[var] # {} /\ domains[var] # crossword.words

\* C12: every step of enforce_node_consistency, revise and ac3 (and every
\* other step of the solver) leaves each variable's domain a subset of what
\* it was before the step.
MonotonicShrink ==
    [][\A var \in crossword.variables : domains'[var] \subseteq domains[var]]_vars

\* ac3 is running and revise has removed a word that node consistency had
\* left
MonotonicShrinkWitness ==
    /\ pc = "ac3"
    /\ ~SomeDomainEmpty
    /\ \E var \in crossword.variables :
          domains[var] # NodeConsistentDomains[var]

\* C13: if ac3() with the default worklist has returned True, calling ac3()
\* again at once returns True and leaves every domain as the first call left
\* it.
Ac3Idempotent ==
    (pc = "ac3_ret" /\ ac3prev.called /\ ~ac3prev.arcs.given /\ ac3prev.ret)
        => ac3ret /\ domains = ac3prev.domains

\* the second of two calls of ac3() has returned, and the first had removed a
\* word and returned True
Ac3IdempotentWitness ==
    /\ pc = "ac3_ret" /\ ac3prev.called /\ ~ac3prev.arcs.given /\ ac3prev.ret
    /\ ac3ret
    /\ crossword.variables = Zed
    /\ ac3prev.domains # NodeConsistentDomains
    /\ \A var \in crossword.variables : ac3prev.domains[var] # {}

\* the complete assignments of vocabulary words that satisfy the consistency
\* checker
Solutions ==
    {a \in [crossword.variables -> crossword.words] : Satisfies(a)}

\* C14: for a puzzle with exactly one complete consistent assignment, solve()
\* returns that assignment, whatever the iteration orders of variables,
\* neighbors and domain values.
SolveUnique ==
    (pc = "done" /\ SolveRun /\ Cardinality(Solutions) = 1)
        => ~result.isNone /\ result.value \in Solutions

\* solve() has returned the only solution of a three-slot puzzle in which a
\* domain still had two words when the search began
SolveUniqueWitness ==
    /\ pc = "done" /\ SolveRun /\ Cardinality(Solutions) = 1
    /\ ~result.isNone /\ result.value \in Solutions
    /\ crossword.variables = Zed
    /\ \E var \in crossword.variables : Cardinality(domains[var]) >= 2

\* the game value of a board under best play of both sides: the utility of a
\* terminal board, else the best value of a successor for the player to move
RECURSIVE GameValue(_)
GameValue(b) ==
    IF terminal(b) THEN utility(b)
    ELSE LET values == {GameValue(resultBoard(b, c)) : c \in actions(b)}
         IN  IF player(b) = X
             THEN CHOOSE v \in values : \A u \in values : u <= v
             ELSE CHOOSE v \in values : \A u \in values : v <= u

\* C15: on every non-terminal board reached by legal alternating play,
\* minimax returns an action of actions(board) whose resulting position has
\* the game value of the board; it returns None exactly on terminal boards.
MinimaxOptimal ==
    move.called =>
        IF terminal(board)
        THEN move.isNone
        ELSE /\ ~move.isNone
             /\ move.action \in actions(board)
             /\ GameValue(resultBoard(board, move.action)) = GameValue(board)

\* C16: whenever a call backtrack(assignment) returns None, the assignment
\* holds exactly the pairs it held when that call was entered.  (The call on
\* top of the stack returns None in the step from its for loop to the
\* return.)
FailedBranchRestores ==
    [][(pc = "bt_loop" /\ pc' = "bt_ret")
          => assignment' = stack[Len(stack)].entry]_vars

\* a recursive call of backtrack has returned None to its caller's for loop
\* after trying the words of a non-empty domain
FailedBranchRestoresWitness ==
    /\ pc = "bt_ret" /\ result.isNone
    /\ Len(stack) >= 1
    /\ assignment = Put(stack[Len(stack)].entry, stack[Len(stack)].var,
                        assignment[stack[Len(stack)].var])
    /\ \A var \in crossword.variables : domains[var] # {}

\* the positions inside a call of backtrack
InBacktrack == pc \in {"bt_call", "bt_loop", "bt_ret"}

\* C17: during and after backtrack, with every call it makes to
\* select_unassigned_variable, order_domain_values and consistent, every
\* domain is the one it was when backtrack was called, whether the search
\* succeeds or fails.
SearchKeepsDomains ==
    [][InBacktrack => domains' = domains]_vars

\* the search has tried a word, gone one call deeper and come back with None
SearchKeepsDomainsWitness ==
    /\ pc = "bt_ret" /\ result.isNone
    /\ Len(stack) >= 1
    /\ \A var \in crossword.variables : Cardinality(domains[var]) >= 1
    /\ \E var \in crossword.variables : Cardinality(domains[var]) >= 2

NoDuplicates(q) == \A k, m \in 1..Len(q) : q[k] = q[m] => k = m

\* the arcs a step that pops (x, y) has to append: (z, x) for the neighbors z
\* of x other than y, unless the arc is in the rest of the queue
Reenqueued(x, y, rest) ==
    {a \in Arcs : a[2] = x /\ a[1] # y /\ ~InQueue(rest, a)}

\* C18: an ac3 step that pops (x, y) and removes a word from x's domain
\* without emptying it appends exactly the arcs (z, x), z a neighbor of x
\* other than y, that are not in the queue, each once, and nothing else; a
\* step that removes no word appends nothing; a queue without duplicate arcs
\* stays without duplicate arcs.
ReenqueueRule ==
    [][(pc = "ac3" /\ queue # <<>>) =>
          LET x == queue[1][1]
              y == queue[1][2]
              rest == Tail(queue)
              appended == SubSeq(queue', Len(rest) + 1, Len(queue'))
          IN  /\ (domains' # domains /\ domains'[x] # {}) =>
                    /\ Len(queue') >= Len(rest)
                    /\ SubSeq(queue', 1, Len(rest)) = rest
                    /\ {appended[k] : k \in 1..Len(appended)}
                          = Reenqueued(x, y, rest)
                    /\ NoDuplicates(appended)
              /\ domains' = domains => queue' = rest
              /\ NoDuplicates(queue) => NoDuplicates(queue')]_vars

\* ac3, started with a list of arcs, has removed a word and appended an arc:
\* the queue holds an arc that was not in the list
ReenqueueRuleWitness ==
    /\ pc = "ac3" /\ arcs.given /\ arcs.list # <<>>
    /\ \A var \in crossword.variables : domains[var] # {}
    /\ \E k \in 1..Len(queue) : ~InQueue(arcs.list, queue[k])

\* C19: when ac3 is called with a list (of any length) rather than None, the
\* initial worklist is that list; the list of all arcs is the initial worklist
\* only when the argument is None.
ExplicitArcsUsed ==
    [][(pc # "ac3" /\ pc' = "ac3") =>
          IF arcs'.given
          THEN queue' = arcs'.list
          ELSE queue' \in InitialQueues(NoArcs)]_vars

\* one run of ac3() from the node-consistent domains: the list of all arcs in
\* one fixed order
ReferenceRun ==
    ac3(NodeConsistentDomains, CHOOSE q \in InitialQueues(NoArcs) : TRUE)

\* C20: from the same domains, whatever the order of the initial list of all
\* arcs (and of the neighbors visited when arcs are appended), ac3 returns
\* the same value, and when it returns True it leaves the same domains: every
\* run agrees with the run in one fixed order.
Ac3Confluent ==
    (pc = "ac3_ret" /\ ~arcs.given /\ ~ac3prev.called)
        => /\ ac3ret = ReferenceRun.ret
           /\ ac3ret => domains = ReferenceRun.domains

\* ac3() has returned True on the three-slot structure after removing words
\* from the domains of two variables
Ac3ConfluentWitness ==
    /\ pc = "ac3_ret" /\ ~arcs.given /\ ~ac3prev.called
    /\ ac3ret
    /\ crossword.variables = Zed
    /\ Cardinality({var \in crossword.variables :
                       domains[var] # NodeConsistentDomains[var]}) >= 2

-----------------------------------------------------------------------------
(* C21 - C25 *)

\* C21: as soon as a revise(x, y) inside ac3 empties x's domain (removes its
\* last words), ac3 returns False in that same step; after ac3 has returned
\* no domain is modified; and ac3 returns False only in a step that has just
\* emptied the domain of the variable it revised.
StopsAtEmptiedDomain ==
    [][/\ (/\ pc = "ac3" /\ queue # <<>>
           /\ domains' # domains
           /\ domains'[queue[1][1]] = {})
              => (pc' = "ac3_ret" /\ ~ac3ret')
       /\ (pc = "ac3" /\ pc' = "ac3_ret" /\ ~ac3ret')
              => /\ queue # <<>>
                 /\ domains[queue[1][1]] # {}
                 /\ domains'[queue[1][1]] = {}
                 /\ \A var \in crossword.variables \ {queue[1][1]} :
                        domains'[var] = domains[var]
       /\ pc = "ac3_ret" => domains' = domains]_vars

\* ac3 has returned False with one domain empty while an arc between two
\* other, non-empty domains was still to be revised
StopsAtEmptiedDomainWitness ==
    /\ pc = "ac3_ret" /\ ~ac3ret
    /\ Cardinality({var \in crossword.variables : domains[var] = {}}) = 1
    /\ \E a \in Arcs : /\ domains[a[1]] # {} /\ domains[a[2]] # {}
                       /\ revise(domains, a[1], a[2]).revised

\* the words of x's domain that no word of y's domain matches at the overlap
Unsupported(doms, x, y) ==
    {w1 \in doms[x] :
        \A w2 \in doms[y] :
            Char(w1, overlaps[x, y][1]) # Char(w2, overlaps[x, y][2])}

\* C22: revise(x, y) for overlapping x, y removes from x's domain exactly the
\* words that no word of y's domain matches at the overlap, leaves every other
\* domain (y's included) unchanged and returns True iff it removed a word;
\* for x, y that do not overlap it changes nothing and returns False.
ReviseContract ==
    [][(probe'.fn = "revise" /\ probe.fn # "revise") =>
          LET x == probe'.retList[1]
              y == probe'.retList[2]
          IN  IF overlaps[x, y] # NoOverlap
              THEN /\ domains'[x] = domains[x] \ Unsupported(domains, x, y)
                   /\ \A var \in crossword.variables \ {x} :
                          domains'[var] = domains[var]
                   /\ (probe'.ret = "True") <=> (domains'[x] # domains[x])
              ELSE /\ domains' = domains
                   /\ probe'.ret = "False"]_vars

\* revise has removed a word from x's domain and kept another
ReviseContractWitness ==
    /\ probe.fn = "revise" /\ probe.ret = "True"
    /\ overlaps[probe.retList[1], probe.retList[2]] # NoOverlap
    /\ domains[probe.retList[1]] # {}
    /\ domains[probe.retList[1]]
          # NodeConsistentDomains[probe.retList[1]]

\* C23: for every initial worklist (the list of all arcs in any order, or a
\* list that was given), a call of ac3 eventually returns.
Ac3Terminates == (pc = "ac3") ~> (pc = "ac3_ret")

\* ac3, started with a list of one arc (x, y), has returned True after the
\* queue was refilled: x lost a word and has a neighbor other than y
Ac3TerminatesWitness ==
    /\ pc = "ac3_ret" /\ ac3ret
    /\ arcs.given /\ Len(arcs.list) = 1
    /\ domains[arcs.list[1][1]] # NodeConsistentDomains[arcs.list[1][1]]
    /\ neighbors(arcs.list[1][1]) \ {arcs.list[1][2]} # {}

\* C24: when solve() runs backtrack from the empty assignment, the assignment
\* at the entry of every (recursive) call satisfies the consistency checker;
\* an inconsistent tentative extension is never recursed on, and is removed
\* before the next value is tried: at the head of a call's for loop the
\* assignment is the one the call was entered with.
SearchAssignmentConsistent ==
    SolveRun =>
        /\ pc = "bt_call" => Satisfies(assignment)
        /\ pc = "bt_loop" =>
              /\ assignment = stack[Len(stack)].entry
              /\ Satisfies(assignment)
        /\ \A k \in 1..Len(stack) : Satisfies(stack[k].entry)

\* the search is entering a call two levels below the outermost one of
\* solve(), after the outermost call had a word rejected or failed
SearchAssignmentConsistentWitness ==
    /\ pc = "bt_call" /\ SolveRun
    /\ crossword.variables = Zed
    /\ Len(stack) = 2
    /\ Cardinality(DOMAIN assignment) = 2
    /\ Len(stack[1].ordered) - Len(stack[1].values) >= 2

\* a sentence is true of the board: exactly count of its cells hold a mine
TrueOfBoard(s) ==
    /\ Cardinality(s.cells \cap field) = s.count
    /\ 0 <= s.count
    /\ s.count <= Cardinality(s.cells)

\* C25: after any sequence of add_knowledge(cell, count) calls with cells
\* that hold no mine and the true counts, every cell of ai.safes holds no
\* mine, every cell of ai.mines holds a mine, and every sentence of
\* ai.knowledge is true of the board, with 0 <= count <= number of cells.
KnowledgeSound ==
    /\ ai.safes \cap field = {}
    /\ ai.mines \subseteq field
    /\ \A k \in 1..Len(ai.knowledge) : TrueOfBoard(ai.knowledge[k])

\* after two or more calls the AI has found a mine, holds a sentence it
\* inferred from two others, and holds a sentence of two or more cells with
\* a mine among them
KnowledgeSoundWitness ==
    /\ calls >= 2
    /\ ai.mines # {}
    /\ ai.safes # {}
    /\ Len(ai.knowledge) > calls
    /\ \E k \in 1..Len(ai.knowledge) :
          /\ Cardinality(ai.knowledge[k].cells) >= 2
          /\ ai.knowledge[k].count >= 1

====
